---- MODULE Spec2Model ----
(***************************************************************************)
(* A model of template.py: the Resume class, a UserDict whose data holds   *)
(* the ten categories of a json resume, with its file I/O and its          *)
(* per-section add / remove / update methods.                              *)
(*                                                                         *)
(* Python values are tagged records, since the program is dynamically      *)
(* typed and json dispatches on the type of what it meets:                 *)
(*   None, Str(s), List(<<...>>), Dict([key |-> value]), Date(y, m, d).    *)
(***************************************************************************)
EXTENDS Integers, Sequences, FiniteSets, TLC

VARIABLES
    resumes,    \* the Resume instances constructed so far
    data,       \* data[self]: the UserDict's data, a Dict of category -> object
    location,   \* location[self]: the url to open from / save to
    defaults,   \* the default-argument objects of __init__, one per parameter
    files,      \* the file system: path -> content
    err,        \* the exception the last call raised, "" when it returned
    calls       \* the number of calls that returned normally

vars == <<resumes, data, location, defaults, files, err, calls>>

\* Bounds of the exploration.
MaxCalls == 2
MaxIndex == 2

\* ------------------------------------------------------------ Python values

None == [t |-> "None"]
Str(s) == [t |-> "str", s |-> s]
List(items) == [t |-> "list", items |-> items]
Dict(items) == [t |-> "dict", items |-> items]
Date(year, month, day) == [t |-> "date", year |-> year, month |-> month, day |-> day]

EmptyDict == Dict([k \in {} |-> None])
EmptyList == List(<<>>)

\* bool(v), as the "if end_date:" tests take it.
Truthy(v) ==
    CASE v.t = "None" -> FALSE
      [] v.t = "str"  -> v.s # ""
      [] v.t = "list" -> Len(v.items) > 0
      [] v.t = "dict" -> DOMAIN v.items # {}
      [] OTHER        -> TRUE

\* Decimal digits of n, zero-padded on the left to width w.
Pad(n, w) ==
    LET s == ToString(n)
    IN  IF Len(s) >= w THEN s ELSE SubSeq("0000", 1, w - Len(s)) \o s

\* Only datetime.date has the isoformat attribute.
HasIsoformat(v) == v.t = "date"

\* date.isoformat(): YYYY-MM-DD.
isoformatNoPad(d) ==
    Str(ToString(d.year) \o "-" \o ToString(d.month) \o "-" \o ToString(d.day))

isoformat(d) ==
    Str(Pad(d.year, 4) \o "-" \o Pad(d.month, 2) \o "-" \o Pad(d.day, 2))

\* The position a sequence index names: a negative index counts from the end.
IndexPos(l, index) == IF index < 0 THEN index + Len(l.items) ELSE index

IndexOk(l, index) == IndexPos(l, index) >= 0 /\ IndexPos(l, index) < Len(l.items)

\* l[index], for IndexOk(l, index).
list_getitem(l, index) == l.items[IndexPos(l, index) + 1]

\* l after l.append(x).
list_appendFront(l, x) == List(<<x>> \o l.items)

list_append(l, x) == List(Append(l.items, x))

\* l after del l[index], for IndexOk(l, index).
list_delitemLast(l, index) == List(SubSeq(l.items, 1, Len(l.items) - 1))

list_delitem(l, index) ==
    LET n == IndexPos(l, index)
    IN  List(SubSeq(l.items, 1, n) \o SubSeq(l.items, n + 2, Len(l.items)))

\* l after l[index] = x, for IndexOk(l, index).
list_setitem(l, index, x) == List([l.items EXCEPT ![IndexPos(l, index) + 1] = x])

HasKey(d, k) == k \in DOMAIN d.items

\* d after d.update(other): other's keys are set, d's other keys are kept.
dict_update(d, other) ==
    Dict([k \in DOMAIN d.items \cup DOMAIN other.items |->
            IF k \in DOMAIN other.items THEN other.items[k] ELSE d.items[k]])

\* ------------------------------------------------------------------- json

JNull == [j |-> "null"]
JString(s) == [j |-> "string", s |-> s]
JArray(elems) == [j |-> "array", elems |-> elems]
JObject(members) == [j |-> "object", members |-> members]

\* Whether JSONEncoder can encode v: None, str, list and dict (with their
\* contents) are; a datetime.date is not (TypeError).
RECURSIVE Serializable(_)
Serializable(v) ==
    CASE v.t = "None" -> TRUE
      [] v.t = "str"  -> TRUE
      [] v.t = "list" -> \A i \in DOMAIN v.items : Serializable(v.items[i])
      [] v.t = "dict" -> \A k \in DOMAIN v.items : Serializable(v.items[k])
      [] OTHER        -> FALSE

\* json.JSONEncoder().encode(v), for Serializable(v).
RECURSIVE JSONEncodeNoneAsString(_)
JSONEncodeNoneAsString(v) ==
    CASE v.t = "None" -> JString("null")
      [] v.t = "str"  -> JString(v.s)
      [] v.t = "list" -> JArray([i \in DOMAIN v.items |-> JSONEncodeNoneAsString(v.items[i])])
      [] v.t = "dict" -> JObject([k \in DOMAIN v.items |-> JSONEncodeNoneAsString(v.items[k])])

RECURSIVE JSONEncode(_)
JSONEncode(v) ==
    CASE v.t = "None" -> JNull
      [] v.t = "str"  -> JString(v.s)
      [] v.t = "list" -> JArray([i \in DOMAIN v.items |-> JSONEncode(v.items[i])])
      [] v.t = "dict" -> JObject([k \in DOMAIN v.items |-> JSONEncode(v.items[k])])

\* json.load of a well-formed text.
RECURSIVE JSONDecode(_)
JSONDecode(x) ==
    CASE x.j = "null"   -> None
      [] x.j = "string" -> Str(x.s)
      [] x.j = "array"  -> List([i \in DOMAIN x.elems |-> JSONDecode(x.elems[i])])
      [] x.j = "object" -> Dict([k \in DOMAIN x.members |-> JSONDecode(x.members[k])])

\* ------------------------------------------------------------ file system

Missing == [f |-> "missing"]
Garbage == [f |-> "garbage"]            \* a file that is not json
Text(x) == [f |-> "json", json |-> x]   \* a file holding the json text of x

Paths == {"resume.json", "bad.json", "new.json", "nodir/out.json"}

\* The directory part of the path exists ('' names no file at all).
DirExists(path) == path \in {"resume.json", "bad.json", "new.json"}

\* A resume written by another tool: some categories only, a record with a
\* field of its own, and a top-level key that is no category.
ResumeJson ==
    JObject([
        basics |-> JObject([
            name |-> JString("Ann"),
            location |-> JObject([city |-> JString("Oslo"), floor |-> JString("3")]),
            profiles |-> JArray(<<
                JObject([network |-> JString("gh"), username |-> JString("ann"),
                         url |-> JString("gh.io/ann"), verified |-> JString("yes")])>>)]),
        skills |-> JArray(<<
            JObject([name |-> JString("C"), level |-> JString("Expert"),
                     keywords |-> JArray(<<JString("posix")>>), years |-> JString("9")]),
            JObject([name |-> JString("SQL"), level |-> JString("Basic"),
                     keywords |-> JArray(<<>>)]),
            JObject([name |-> JString("TLA"), level |-> JNull,
                     keywords |-> JArray(<<>>)])>>),
        meta |-> JObject([theme |-> JString("flat")])])

InitialFiles ==
    [p \in Paths |->
        CASE p = "resume.json" -> Text(ResumeJson)
          [] p = "bad.json"    -> Garbage
          [] OTHER             -> Missing]

\* ----------------------------------------------------------------- Resume

categories == <<"basics", "work", "volunteer", "education", "awards",
                "publications", "skills", "languages", "interests", "references">>

Categories == {categories[i] : i \in DOMAIN categories}

Instances == {"r1", "r2"}

\* A reference to the default-argument object of __init__'s parameter param:
\* the one object every call that omits the argument receives.
DefaultArg(param) == [t |-> "ref", param |-> param]

\* self[key]: the object the category is bound to.
Get(self, key) ==
    LET v == data[self].items[key]
    IN  IF v.t = "ref" THEN defaults[v.param] ELSE v

\* self.data with every category's object in place of its reference.
Contents(self) == Dict([k \in DOMAIN data[self].items |-> Get(self, k)])

\* The object self[key] is changed in place to v.
Mutate(self, key, v) ==
    LET cur == data[self].items[key]
    IN  IF cur.t = "ref"
        THEN /\ defaults' = [defaults EXCEPT ![cur.param] = v]
             /\ UNCHANGED data
        ELSE /\ data' = [data EXCEPT ![self].items[key] = v]
             /\ UNCHANGED defaults

\* The call raises e: nothing it had not yet changed is changed.
Raise(e) ==
    /\ err' = e
    /\ UNCHANGED <<resumes, data, location, defaults, files>>

\* The call returns after changing self[key] in place to v.
ReturnMutated(self, key, v) ==
    /\ err' = ""
    /\ Mutate(self, key, v)
    /\ UNCHANGED <<resumes, location, files>>

Locations == {"", "new.json", "nodir/out.json"}

\* Resume(location=loc): every category is bound to its default argument.
Resume_init(self, loc) ==
    /\ self \notin resumes
    /\ resumes' = resumes \cup {self}
    /\ data' = [r \in resumes \cup {self} |->
                  IF r = self THEN Dict([k \in Categories |-> DefaultArg(k)])
                  ELSE data[r]]
    /\ location' = [r \in resumes \cup {self} |->
                      IF r = self THEN loc ELSE location[r]]
    /\ err' = ""
    /\ UNCHANGED <<defaults, files>>

Init ==
    /\ resumes = {"r1"}
    /\ data = [r \in {"r1"} |-> Dict([k \in Categories |-> DefaultArg(k)])]
    /\ location \in [{"r1"} -> Locations]
    /\ defaults = [k \in Categories |-> IF k = "basics" THEN EmptyDict ELSE EmptyList]
    /\ files = InitialFiles
    /\ err = ""
    /\ calls = 0

\* File I/O

\* What open(path, 'r') raises, "" when it opens.
OpenForRead(path) ==
    IF path \in Paths /\ files[path] # Missing THEN "" ELSE "FileNotFoundError"

\* What open(path, 'w') raises, "" when it opens (and truncates).
OpenForWrite(path) ==
    IF path \in Paths /\ DirExists(path) THEN "" ELSE "FileNotFoundError"

\* self.data after self.data.update(resume), resume the json loaded from content.
Load(d, content) == dict_update(d, JSONDecode(content.json))

\* The text save writes: the encoding of self.data.
Dump(self) == Text(JSONEncode(Contents(self)))

open_from_fileReplace(self, path) ==
    IF OpenForRead(path) # "" THEN Raise(OpenForRead(path))
    ELSE IF files[path] = Garbage THEN Raise("JSONDecodeError")
    ELSE /\ data' = [data EXCEPT ![self] = JSONDecode(files[path].json)]
         /\ location' = [location EXCEPT ![self] = path]
         /\ err' = ""
         /\ UNCHANGED <<resumes, defaults, files>>

\* open_from_file, with the location set before the file is read.
open_from_fileLocationFirst(self, path) ==
    IF OpenForRead(path) # "" \/ files[path] = Garbage
    THEN /\ location' = [location EXCEPT ![self] = path]
         /\ err' = IF OpenForRead(path) # "" THEN OpenForRead(path) ELSE "JSONDecodeError"
         /\ UNCHANGED <<resumes, data, defaults, files>>
    ELSE /\ data' = [data EXCEPT ![self] = Load(data[self], files[path])]
         /\ location' = [location EXCEPT ![self] = path]
         /\ err' = ""
         /\ UNCHANGED <<resumes, defaults, files>>

open_from_file(self, path) ==
    IF OpenForRead(path) # "" THEN Raise(OpenForRead(path))
    ELSE IF files[path] = Garbage THEN Raise("JSONDecodeError")
    ELSE /\ data' = [data EXCEPT ![self] = Load(data[self], files[path])]
         /\ location' = [location EXCEPT ![self] = path]
         /\ err' = ""
         /\ UNCHANGED <<resumes, defaults, files>>

save(self) ==
    IF OpenForWrite(location[self]) # "" THEN Raise(OpenForWrite(location[self]))
    ELSE IF ~Serializable(Contents(self))
    THEN /\ files' = [files EXCEPT ![location[self]] = Garbage]
         /\ err' = "TypeError"
         /\ UNCHANGED <<resumes, data, location, defaults>>
    ELSE /\ files' = [files EXCEPT ![location[self]] = Dump(self)]
         /\ err' = ""
         /\ UNCHANGED <<resumes, data, location, defaults>>

\* ---------------------------------------------------- the methods' shapes

\* self[key].append(record)
AppendTo(self, key, record) ==
    ReturnMutated(self, key, list_append(Get(self, key), record))

\* del self[key][index]
DelFrom(self, key, index) ==
    IF ~IndexOk(Get(self, key), index) THEN Raise("IndexError")
    ELSE ReturnMutated(self, key, list_delitem(Get(self, key), index))

\* self[key][index].update(fields)
UpdateInAssign(self, key, index, fields) ==
    IF ~IndexOk(Get(self, key), index) THEN Raise("IndexError")
    ELSE ReturnMutated(self, key, list_setitem(Get(self, key), index, fields))

UpdateIn(self, key, index, fields) ==
    IF ~IndexOk(Get(self, key), index) THEN Raise("IndexError")
    ELSE ReturnMutated(self, key,
            list_setitem(Get(self, key), index,
                         dict_update(list_getitem(Get(self, key), index), fields)))

\* The value of end_date after "if end_date: end_date = end_date.isoformat()".
EndDate(end_date) == IF Truthy(end_date) THEN isoformat(end_date) ELSE end_date

\* Basics section

update_basics(self, name, label, picture, email, phone, website, summary) ==
    ReturnMutated(self, "basics",
        dict_update(Get(self, "basics"),
            Dict([name |-> name, label |-> label, picture |-> picture,
                  email |-> email, phone |-> phone, website |-> website,
                  summary |-> summary])))

update_location(self, address, postal_code, city, country_code, region) ==
    IF ~HasKey(Get(self, "basics"), "location") THEN Raise("KeyError")
    ELSE ReturnMutated(self, "basics",
            [Get(self, "basics") EXCEPT !.items["location"] =
                dict_update(@, Dict([address |-> address, postalCode |-> postal_code,
                                     city |-> city, countryCode |-> country_code,
                                     region |-> region]))])

add_profile(self, network, username, url) ==
    IF ~HasKey(Get(self, "basics"), "profiles") THEN Raise("KeyError")
    ELSE ReturnMutated(self, "basics",
            [Get(self, "basics") EXCEPT !.items["profiles"] =
                list_append(@, Dict([network |-> network, username |-> username,
                                     url |-> url]))])

remove_profile(self, index) ==
    IF ~HasKey(Get(self, "basics"), "profiles") THEN Raise("KeyError")
    ELSE IF ~IndexOk(Get(self, "basics").items["profiles"], index) THEN Raise("IndexError")
    ELSE ReturnMutated(self, "basics",
            [Get(self, "basics") EXCEPT !.items["profiles"] = list_delitem(@, index)])

update_profile(self, index, network, username, url) ==
    IF ~HasKey(Get(self, "basics"), "profiles") THEN Raise("KeyError")
    ELSE IF ~IndexOk(Get(self, "basics").items["profiles"], index) THEN Raise("IndexError")
    ELSE ReturnMutated(self, "basics",
            [Get(self, "basics") EXCEPT !.items["profiles"] =
                list_setitem(@, index,
                    dict_update(list_getitem(@, index),
                        Dict([network |-> network, username |-> username,
                              url |-> url])))])

\* Work section

add_work(self, company, position, website, summary, highlights, start_date, end_date) ==
    IF ~HasIsoformat(start_date) THEN Raise("AttributeError")
    ELSE AppendTo(self, "work",
            Dict([company |-> company, position |-> position, website |-> website,
                  startDate |-> isoformat(start_date), endDate |-> EndDate(end_date),
                  summary |-> summary, highlights |-> highlights]))

remove_work(self, index) == DelFrom(self, "work", index)

update_work(self, index, company, position, website, summary, highlights, start_date, end_date) ==
    IF ~IndexOk(Get(self, "work"), index) THEN Raise("IndexError")
    ELSE IF ~HasIsoformat(start_date) THEN Raise("AttributeError")
    ELSE UpdateIn(self, "work", index,
            Dict([company |-> company, position |-> position, website |-> website,
                  startDate |-> isoformat(start_date), endDate |-> EndDate(end_date),
                  summary |-> summary, highlights |-> highlights]))

\* Volunteer section

add_volunteer(self, organization, position, website, summary, highlights, start_date, end_date) ==
    IF ~HasIsoformat(start_date) THEN Raise("AttributeError")
    ELSE AppendTo(self, "volunteer",
            Dict([organization |-> organization, position |-> position,
                  website |-> website, startDate |-> isoformat(start_date),
                  endDate |-> EndDate(end_date), summary |-> summary,
                  highlights |-> highlights]))

\* remove_volunteer, deleting from the work list instead.
remove_volunteerFromWork(self, index) == DelFrom(self, "work", index)

remove_volunteer(self, index) == DelFrom(self, "volunteer", index)

update_volunteer(self, index, organization, position, website, summary, highlights, start_date, end_date) ==
    IF ~IndexOk(Get(self, "volunteer"), index) THEN Raise("IndexError")
    ELSE IF ~HasIsoformat(start_date) THEN Raise("AttributeError")
    ELSE UpdateIn(self, "volunteer", index,
            Dict([organization |-> organization, position |-> position,
                  website |-> website, startDate |-> isoformat(start_date),
                  endDate |-> EndDate(end_date), summary |-> summary,
                  highlights |-> highlights]))

\* Education section

add_education(self, institution, area, study_type, gpa, courses, start_date, end_date) ==
    IF ~HasIsoformat(start_date) THEN Raise("AttributeError")
    ELSE AppendTo(self, "education",
            Dict([institution |-> institution, area |-> area, studyType |-> study_type,
                  gpa |-> gpa, startDate |-> isoformat(start_date),
                  endDate |-> EndDate(end_date), courses |-> courses]))

remove_education(self, index) == DelFrom(self, "education", index)

update_education(self, index, institution, area, study_type, gpa, courses, start_date, end_date) ==
    IF ~IndexOk(Get(self, "education"), index) THEN Raise("IndexError")
    ELSE IF ~HasIsoformat(start_date) THEN Raise("AttributeError")
    ELSE UpdateIn(self, "education", index,
            Dict([institution |-> institution, area |-> area, studyType |-> study_type,
                  gpa |-> gpa, startDate |-> isoformat(start_date),
                  endDate |-> EndDate(end_date), courses |-> courses]))

\* Award section

add_award(self, title, date, awarder, summary) ==
    IF ~HasIsoformat(date) THEN Raise("AttributeError")
    ELSE AppendTo(self, "awards",
            Dict([title |-> title, date |-> isoformat(date), awarder |-> awarder,
                  summary |-> summary]))

remove_award(self, index) == DelFrom(self, "awards", index)

update_award(self, index, title, date, awarder, summary) ==
    IF ~IndexOk(Get(self, "awards"), index) THEN Raise("IndexError")
    ELSE IF ~HasIsoformat(date) THEN Raise("AttributeError")
    ELSE UpdateIn(self, "awards", index,
            Dict([title |-> title, date |-> isoformat(date), awarder |-> awarder,
                  summary |-> summary]))

\* Publication section

add_publication(self, name, publisher, release_date, website, summary) ==
    IF ~HasIsoformat(release_date) THEN Raise("AttributeError")
    ELSE AppendTo(self, "publications",
            Dict([name |-> name, publisher |-> publisher,
                  releaseDate |-> isoformat(release_date), website |-> website,
                  summary |-> summary]))

remove_publication(self, index) == DelFrom(self, "publications", index)

update_publication(self, index, name, publisher, release_date, website, summary) ==
    IF ~IndexOk(Get(self, "publications"), index) THEN Raise("IndexError")
    ELSE IF ~HasIsoformat(release_date) THEN Raise("AttributeError")
    ELSE UpdateIn(self, "publications", index,
            Dict([name |-> name, publisher |-> publisher,
                  releaseDate |-> isoformat(release_date), website |-> website,
                  summary |-> summary]))

\* Skill section

add_skill(self, name, level, keywords) ==
    AppendTo(self, "skills", Dict([name |-> name, level |-> level, keywords |-> keywords]))

remove_skill(self, index) == DelFrom(self, "skills", index)

update_skill(self, index, name, level, keywords) ==
    UpdateIn(self, "skills", index,
             Dict([name |-> name, level |-> level, keywords |-> keywords]))

\* Language section

add_language(self, language, fluency) ==
    AppendTo(self, "languages", Dict([language |-> language, fluency |-> fluency]))

remove_language(self, index) == DelFrom(self, "languages", index)

update_language(self, index, language, fluency) ==
    UpdateIn(self, "languages", index, Dict([language |-> language, fluency |-> fluency]))

\* Interest section

add_interest(self, name, keywords) ==
    AppendTo(self, "interests", Dict([name |-> name, keywords |-> keywords]))

remove_interest(self, index) == DelFrom(self, "interests", index)

update_interest(self, index, name, keywords) ==
    UpdateIn(self, "interests", index, Dict([name |-> name, keywords |-> keywords]))

\* Reference section

add_reference(self, name, reference) ==
    AppendTo(self, "references", Dict([name |-> name, reference |-> reference]))

remove_reference(self, index) == DelFrom(self, "references", index)

update_reference(self, index, name, reference) ==
    UpdateIn(self, "references", index, Dict([name |-> name, reference |-> reference]))

\* ----------------------------------------------------------- the callers

\* The index arguments tried.
Indexes == (0 - MaxIndex)..MaxIndex

Jan1 == Date(2020, 1, 1)
Dec31 == Date(2021, 12, 31)

\* Arguments of add_* and update_*: a tuple of the spec's examples, one of
\* empty strings, and for the dated sections one with no start date.
BasicsArgs ==
    {<<Str("Bo"), Str("Dev"), Str("bo.png"), Str("bo@x.org"), Str("555"),
       Str("bo.dev"), Str("hi")>>}

LocationArgs ==
    {<<Str("1 Main St"), Str("0150"), Str("Bergen"), Str("NO"), Str("Vestland")>>}

ProfileArgs ==
    {<<Str("tw"), Str("bo"), Str("tw.com/bo")>>, <<Str(""), Str(""), Str("")>>}

WorkArgs ==
    {<<Str("Acme"), Str("Engineer"), Str("acme.com"), Str("desc"),
       List(<<Str("shipped X")>>), Jan1, None>>,
     <<Str(""), Str(""), Str(""), Str(""), EmptyList, Jan1, Dec31>>,
     <<Str("Acme"), Str("Engineer"), Str("acme.com"), Str("desc"),
       List(<<Str("shipped X")>>), None, Dec31>>}

VolunteerArgs ==
    {<<Str("Aid"), Str("Cook"), Str("aid.org"), Str("meals"),
       List(<<Str("fed Y")>>), Jan1, None>>,
     <<Str(""), Str(""), Str(""), Str(""), EmptyList, Jan1, Dec31>>,
     <<Str("Aid"), Str("Cook"), Str("aid.org"), Str("meals"),
       List(<<Str("fed Y")>>), None, None>>}

EducationArgs ==
    {<<Str("MIT"), Str("CS"), Str("BSc"), Str("4.0"),
       List(<<Str("6.001")>>), Jan1, None>>,
     <<Str(""), Str(""), Str(""), Str(""), EmptyList, Jan1, Dec31>>,
     <<Str("MIT"), Str("CS"), Str("BSc"), Str("4.0"),
       List(<<Str("6.001")>>), None, Dec31>>}

AwardArgs ==
    {<<Str("Best"), Jan1, Str("ACM"), Str("won")>>,
     <<Str(""), Dec31, Str(""), Str("")>>,
     <<Str("Best"), None, Str("ACM"), Str("won")>>}

PublicationArgs ==
    {<<Str("Paper"), Str("IEEE"), Jan1, Str("ieee.org"), Str("abstract")>>,
     <<Str(""), Str(""), Dec31, Str(""), Str("")>>,
     <<Str("Paper"), Str("IEEE"), None, Str("ieee.org"), Str("abstract")>>}

SkillArgs ==
    {<<Str("Go"), Str("Intermediate"), List(<<Str("concurrency"), Str("tooling")>>)>>,
     <<Str(""), Str(""), EmptyList>>}

LanguageArgs == {<<Str("English"), Str("Native")>>, <<Str(""), Str("")>>}

InterestArgs == {<<Str("Chess"), List(<<Str("blitz")>>)>>, <<Str(""), EmptyList>>}

ReferenceArgs == {<<Str("Cy"), Str("Great")>>, <<Str(""), Str("")>>}

\* The call A, within the exploration's budget of calls that return.
Call(A) ==
    /\ calls < MaxCalls
    /\ A
    /\ calls' = IF err' = "" THEN calls + 1 ELSE calls

Next ==
    \/ \E self \in resumes : Call(save(self))
    \/ \E self \in resumes, path \in Paths : Call(open_from_file(self, path))
    \/ \E self \in resumes, a \in BasicsArgs :
            Call(update_basics(self, a[1], a[2], a[3], a[4], a[5], a[6], a[7]))
    \/ \E self \in resumes, a \in LocationArgs :
            Call(update_location(self, a[1], a[2], a[3], a[4], a[5]))
    \/ \E self \in resumes, a \in ProfileArgs : Call(add_profile(self, a[1], a[2], a[3]))
    \/ \E self \in resumes, i \in Indexes : Call(remove_profile(self, i))
    \/ \E self \in resumes, i \in Indexes, a \in ProfileArgs :
            Call(update_profile(self, i, a[1], a[2], a[3]))
    \/ \E self \in resumes, a \in WorkArgs :
            Call(add_work(self, a[1], a[2], a[3], a[4], a[5], a[6], a[7]))
    \/ \E self \in resumes, i \in Indexes : Call(remove_work(self, i))
    \/ \E self \in resumes, i \in Indexes, a \in WorkArgs :
            Call(update_work(self, i, a[1], a[2], a[3], a[4], a[5], a[6], a[7]))
    \/ \E self \in resumes, a \in VolunteerArgs :
            Call(add_volunteer(self, a[1], a[2], a[3], a[4], a[5], a[6], a[7]))
    \/ \E self \in resumes, i \in Indexes : Call(remove_volunteer(self, i))
    \/ \E self \in resumes, i \in Indexes, a \in VolunteerArgs :
            Call(update_volunteer(self, i, a[1], a[2], a[3], a[4], a[5], a[6], a[7]))
    \/ \E self \in resumes, a \in EducationArgs :
            Call(add_education(self, a[1], a[2], a[3], a[4], a[5], a[6], a[7]))
    \/ \E self \in resumes, i \in Indexes : Call(remove_education(self, i))
    \/ \E self \in resumes, i \in Indexes, a \in EducationArgs :
            Call(update_education(self, i, a[1], a[2], a[3], a[4], a[5], a[6], a[7]))
    \/ \E self \in resumes, a \in AwardArgs : Call(add_award(self, a[1], a[2], a[3], a[4]))
    \/ \E self \in resumes, i \in Indexes : Call(remove_award(self, i))
    \/ \E self \in resumes, i \in Indexes, a \in AwardArgs :
            Call(update_award(self, i, a[1], a[2], a[3], a[4]))
    \/ \E self \in resumes, a \in PublicationArgs :
            Call(add_publication(self, a[1], a[2], a[3], a[4], a[5]))
    \/ \E self \in resumes, i \in Indexes : Call(remove_publication(self, i))
    \/ \E self \in resumes, i \in Indexes, a \in PublicationArgs :
            Call(update_publication(self, i, a[1], a[2], a[3], a[4], a[5]))
    \/ \E self \in resumes, a \in SkillArgs : Call(add_skill(self, a[1], a[2], a[3]))
    \/ \E self \in resumes, i \in Indexes : Call(remove_skill(self, i))
    \/ \E self \in resumes, i \in Indexes, a \in SkillArgs :
            Call(update_skill(self, i, a[1], a[2], a[3]))
    \/ \E self \in resumes, a \in LanguageArgs : Call(add_language(self, a[1], a[2]))
    \/ \E self \in resumes, i \in Indexes : Call(remove_language(self, i))
    \/ \E self \in resumes, i \in Indexes, a \in LanguageArgs :
            Call(update_language(self, i, a[1], a[2]))
    \/ \E self \in resumes, a \in InterestArgs : Call(add_interest(self, a[1], a[2]))
    \/ \E self \in resumes, i \in Indexes : Call(remove_interest(self, i))
    \/ \E self \in resumes, i \in Indexes, a \in InterestArgs :
            Call(update_interest(self, i, a[1], a[2]))
    \/ \E self \in resumes, a \in ReferenceArgs : Call(add_reference(self, a[1], a[2]))
    \/ \E self \in resumes, i \in Indexes : Call(remove_reference(self, i))
    \/ \E self \in resumes, i \in Indexes, a \in ReferenceArgs :
            Call(update_reference(self, i, a[1], a[2]))

Spec == Init /\ [][Next]_vars

\* ------------------------------------------------------------- properties

ListSections == Categories \ {"basics"}
ListKeys == ListSections \cup {"profiles"}

\* The records of the list a key names in self (none while basics has no profiles).
ListOf(self, key) ==
    IF key # "profiles" THEN Get(self, key).items
    ELSE IF HasKey(Get(self, "basics"), "profiles")
         THEN Get(self, "basics").items["profiles"].items
         ELSE <<>>

ArgsOf(key) ==
    CASE key = "profiles"     -> ProfileArgs
      [] key = "work"         -> WorkArgs
      [] key = "volunteer"    -> VolunteerArgs
      [] key = "education"    -> EducationArgs
      [] key = "awards"       -> AwardArgs
      [] key = "publications" -> PublicationArgs
      [] key = "skills"       -> SkillArgs
      [] key = "languages"    -> LanguageArgs
      [] key = "interests"    -> InterestArgs
      [] key = "references"   -> ReferenceArgs

\* The step is the call add<Section>(a), remove<Section>(index), update<Section>(index, a).
AddCall(self, key, a) ==
    CASE key = "profiles"     -> add_profile(self, a[1], a[2], a[3])
      [] key = "work"         -> add_work(self, a[1], a[2], a[3], a[4], a[5], a[6], a[7])
      [] key = "volunteer"    -> add_volunteer(self, a[1], a[2], a[3], a[4], a[5], a[6], a[7])
      [] key = "education"    -> add_education(self, a[1], a[2], a[3], a[4], a[5], a[6], a[7])
      [] key = "awards"       -> add_award(self, a[1], a[2], a[3], a[4])
      [] key = "publications" -> add_publication(self, a[1], a[2], a[3], a[4], a[5])
      [] key = "skills"       -> add_skill(self, a[1], a[2], a[3])
      [] key = "languages"    -> add_language(self, a[1], a[2])
      [] key = "interests"    -> add_interest(self, a[1], a[2])
      [] key = "references"   -> add_reference(self, a[1], a[2])

RemoveCall(self, key, index) ==
    CASE key = "profiles"     -> remove_profile(self, index)
      [] key = "work"         -> remove_work(self, index)
      [] key = "volunteer"    -> remove_volunteer(self, index)
      [] key = "education"    -> remove_education(self, index)
      [] key = "awards"       -> remove_award(self, index)
      [] key = "publications" -> remove_publication(self, index)
      [] key = "skills"       -> remove_skill(self, index)
      [] key = "languages"    -> remove_language(self, index)
      [] key = "interests"    -> remove_interest(self, index)
      [] key = "references"   -> remove_reference(self, index)

UpdateCall(self, key, index, a) ==
    CASE key = "profiles"     -> update_profile(self, index, a[1], a[2], a[3])
      [] key = "work"         ->
            update_work(self, index, a[1], a[2], a[3], a[4], a[5], a[6], a[7])
      [] key = "volunteer"    ->
            update_volunteer(self, index, a[1], a[2], a[3], a[4], a[5], a[6], a[7])
      [] key = "education"    ->
            update_education(self, index, a[1], a[2], a[3], a[4], a[5], a[6], a[7])
      [] key = "awards"       -> update_award(self, index, a[1], a[2], a[3], a[4])
      [] key = "publications" -> update_publication(self, index, a[1], a[2], a[3], a[4], a[5])
      [] key = "skills"       -> update_skill(self, index, a[1], a[2], a[3])
      [] key = "languages"    -> update_language(self, index, a[1], a[2])
      [] key = "interests"    -> update_interest(self, index, a[1], a[2])
      [] key = "references"   -> update_reference(self, index, a[1], a[2])

\* index is a position of the list: 0 <= index < length.
InBounds(self, key, index) == 0 <= index /\ index < Len(ListOf(self, key))

\* The document of self: its ten sections and its location.
Document(self) == <<[k \in Categories |-> Get(self, k)], location[self]>>

\* The list a key names exists in self (basics.profiles may not).
HasList(self, key) == key # "profiles" \/ HasKey(Get(self, "basics"), "profiles")

\* C1: for every list section and basics.profiles, and every index outside
\* [0, length) of the section's current list, negative ones included,
\* remove<Section>(index) and update<Section>(index, fields) fail with
\* IndexError and leave the document (the ten sections and the location)
\* unchanged.
C1_OutOfRangeFails ==
    [][\A self \in resumes, key \in ListKeys, index \in Indexes :
          (/\ HasList(self, key)
           /\ ~InBounds(self, key, index)
           /\ \/ RemoveCall(self, key, index)
              \/ \E a \in ArgsOf(key) : UpdateCall(self, key, index, a))
          => (err' = "IndexError" /\ Document(self)' = Document(self))]_vars

\* The empty value of a category: an empty object for basics, an empty list
\* for the others.
Empty(k) == IF k = "basics" THEN EmptyDict ELSE EmptyList

\* C2: after a successful open(path), each of the ten sections equals the
\* file's value for it, a section the file does not hold is empty whatever it
\* held before, and the location is path.
C2_OpenReplaces ==
    [][\A self \in resumes, path \in Paths :
          (open_from_file(self, path) /\ err' = "")
          => LET resume == JSONDecode(files[path].json)
             IN  /\ \A k \in Categories :
                        Get(self, k)' = IF HasKey(resume, k) THEN resume.items[k]
                                        ELSE Empty(k)
                 /\ location'[self] = path]_vars

\* The ISO-8601 string of each date the callers pass, and null for no date.
Iso8601(d) ==
    CASE d = Jan1  -> Str("2020-01-01")
      [] d = Dec31 -> Str("2021-12-31")
      [] d = None  -> None

DatedSections == {"work", "volunteer", "education", "awards", "publications"}

\* The date that add/update<Section> takes with no default (None where the
\* section has no date).
RequiredDate(key, a) ==
    CASE key \in {"work", "volunteer", "education"} -> a[6]
      [] key = "awards"                             -> a[2]
      [] key = "publications"                       -> a[3]
      [] OTHER                                      -> None

\* The date fields of a section's records, each with the argument it comes from.
DateFields(key, a) ==
    CASE key \in {"work", "volunteer", "education"} ->
            {<<"startDate", a[6]>>, <<"endDate", a[7]>>}
      [] key = "awards"       -> {<<"date", a[2]>>}
      [] key = "publications" -> {<<"releaseDate", a[3]>>}
      [] OTHER                -> {}

\* A field tuple is valid when every date the method requires is a date.
ValidArgs(key, a) == key \in DatedSections => RequiredDate(key, a) # None

\* The record the schema gives for a field tuple, dates as ISO-8601 strings.
Expected(key, a) ==
    CASE key = "profiles"     -> Dict([network |-> a[1], username |-> a[2], url |-> a[3]])
      [] key = "work"         ->
            Dict([company |-> a[1], position |-> a[2], website |-> a[3],
                  summary |-> a[4], highlights |-> a[5],
                  startDate |-> Iso8601(a[6]), endDate |-> Iso8601(a[7])])
      [] key = "volunteer"    ->
            Dict([organization |-> a[1], position |-> a[2], website |-> a[3],
                  summary |-> a[4], highlights |-> a[5],
                  startDate |-> Iso8601(a[6]), endDate |-> Iso8601(a[7])])
      [] key = "education"    ->
            Dict([institution |-> a[1], area |-> a[2], studyType |-> a[3],
                  gpa |-> a[4], courses |-> a[5],
                  startDate |-> Iso8601(a[6]), endDate |-> Iso8601(a[7])])
      [] key = "awards"       ->
            Dict([title |-> a[1], date |-> Iso8601(a[2]), awarder |-> a[3],
                  summary |-> a[4]])
      [] key = "publications" ->
            Dict([name |-> a[1], publisher |-> a[2], releaseDate |-> Iso8601(a[3]),
                  website |-> a[4], summary |-> a[5]])
      [] key = "skills"       -> Dict([name |-> a[1], level |-> a[2], keywords |-> a[3]])
      [] key = "languages"    -> Dict([language |-> a[1], fluency |-> a[2]])
      [] key = "interests"    -> Dict([name |-> a[1], keywords |-> a[2]])
      [] key = "references"   -> Dict([name |-> a[1], reference |-> a[2]])

\* C3: for every list section and every valid field tuple, add<Section>
\* returns, and the section's list becomes the old list followed by one new
\* record whose fields are the inputs, every date as its ISO-8601 string: the
\* length grows by exactly 1, the new record is last, the records already
\* present are unchanged and keep their order.
C3_AddAppends ==
    [][\A self \in resumes, key \in ListSections :
          \A a \in ArgsOf(key) :
            (ValidArgs(key, a) /\ AddCall(self, key, a))
            => /\ err' = ""
               /\ ListOf(self, key)' = Append(ListOf(self, key), Expected(key, a))]_vars

\* Two add_work calls have returned: the records are in call order, the
\* dates are ISO-8601 strings and the missing end date is null.
C3_Witness ==
    /\ err = ""
    /\ ListOf("r1", "work") =
        <<Dict([company |-> Str("Acme"), position |-> Str("Engineer"),
                website |-> Str("acme.com"), summary |-> Str("desc"),
                highlights |-> List(<<Str("shipped X")>>),
                startDate |-> Str("2020-01-01"), endDate |-> None]),
          Dict([company |-> Str(""), position |-> Str(""), website |-> Str(""),
                summary |-> Str(""), highlights |-> EmptyList,
                startDate |-> Str("2020-01-01"), endDate |-> Str("2021-12-31")])>>

\* C4: for every list section (and basics.profiles) and every index with
\* 0 <= index < length, remove<Section>(index) returns, the list is one
\* shorter, the record that was at index is the one removed, and the other
\* records keep their contents and their order.
C4_RemoveAtIndex ==
    [][\A self \in resumes, key \in ListKeys, index \in Indexes :
          (InBounds(self, key, index) /\ RemoveCall(self, key, index))
          => LET old == ListOf(self, key)
                 new == ListOf(self, key)'
             IN  /\ err' = ""
                 /\ Len(new) = Len(old) - 1
                 /\ \A j \in 1..Len(new) :
                        new[j] = IF j <= index THEN old[j] ELSE old[j + 1]]_vars

\* remove_skill(1) has acted on the three skills read from resume.json: the
\* first and the third are left, in that order.
C4_Witness ==
    /\ err = ""
    /\ location["r1"] = "resume.json"
    /\ Len(ListOf("r1", "skills")) = 2
    /\ ListOf("r1", "skills")[1].items["name"] = Str("C")
    /\ ListOf("r1", "skills")[2].items["name"] = Str("TLA")

\* The fields update<Section> names.
NamedFields(key) == DOMAIN Expected(key, CHOOSE a \in ArgsOf(key) : TRUE).items

\* C5: for every list section (and basics.profiles) and every in-bounds
\* index, update<Section>(index, fields) changes only the named fields of the
\* record at index: every other field of that record keeps its value and no
\* field is added or dropped, every other record is unchanged, and the list
\* keeps its length and order.
C5_UpdateMerges ==
    [][\A self \in resumes, key \in ListKeys, index \in Indexes :
          InBounds(self, key, index) =>
            \A a \in ArgsOf(key) :
              UpdateCall(self, key, index, a)
              => LET old == ListOf(self, key)
                     new == ListOf(self, key)'
                 IN  /\ Len(new) = Len(old)
                     /\ \A j \in 1..Len(old) : j # index + 1 => new[j] = old[j]
                     /\ DOMAIN new[index + 1].items \ NamedFields(key)
                            = DOMAIN old[index + 1].items \ NamedFields(key)
                     /\ \A f \in DOMAIN old[index + 1].items \ NamedFields(key) :
                            new[index + 1].items[f] = old[index + 1].items[f]]_vars

\* update_skill(0, "Go", ...) has acted on the first skill read from
\* resume.json: its name is the new one and its own field "years" is kept.
C5_Witness ==
    /\ err = ""
    /\ Len(ListOf("r1", "skills")) = 3
    /\ ListOf("r1", "skills")[1].items["name"] = Str("Go")
    /\ ListOf("r1", "skills")[1].items["years"] = Str("9")
    /\ ListOf("r1", "skills")[2].items["name"] = Str("SQL")

\* The data of a Resume constructed with no arguments.
Fresh == Dict([k \in Categories |-> DefaultArg(k)])

\* C6: round trip. In every reachable state, for a document whose location
\* can be written, what save() writes is json that open() reads back into
\* ten sections equal to the document's at the time of the save, on the same
\* document and on a freshly created one.
C6_RoundTrip ==
    \A self \in resumes :
        OpenForWrite(location[self]) = ""
        => /\ Serializable(Contents(self))
           /\ \A k \in Categories :
                /\ Load(data[self], Dump(self)).items[k] = Get(self, k)
                /\ Load(Fresh, Dump(self)).items[k] = Get(self, k)

\* save() has written a document that add_work made, with a null end date,
\* and the file reads back to the same work section.
C6_Witness ==
    /\ err = ""
    /\ location["r1"] = "new.json"
    /\ files["new.json"] = Dump("r1")
    /\ Len(ListOf("r1", "work")) = 1
    /\ ListOf("r1", "work")[1].items["endDate"] = None
    /\ JSONDecode(files["new.json"].json).items["work"] = Get("r1", "work")

\* The exceptions save() raises on an I/O error of a location that is set.
WriteFailures == {OpenForWrite(p) : p \in Paths} \ {""}

\* C7: save() on a document whose location is unset fails with an error of
\* its own (NoDestination), distinct from the one an I/O error raises, and
\* writes no file.
C7_NoDestination ==
    [][\A self \in resumes :
          (location[self] = "" /\ save(self))
          => (err' # "" /\ err' \notin WriteFailures /\ files' = files)]_vars

\* C8 as claimed: add<Section> and update<Section> (at an index of the list)
\* never raise whichever of their date fields has no value, store null for
\* it, and store a supplied date as its ISO-8601 string.
C8_NoDateNeverRaises ==
    [][\A self \in resumes, key \in DatedSections :
          \A a \in ArgsOf(key) :
            /\ AddCall(self, key, a)
               => /\ err' = ""
                  /\ LET new == ListOf(self, key)'
                     IN  \A f \in DateFields(key, a) :
                            new[Len(new)].items[f[1]] = Iso8601(f[2])
            /\ \A index \in Indexes :
                 (IndexOk(Get(self, key), index) /\ UpdateCall(self, key, index, a))
                 => /\ err' = ""
                    /\ LET new == ListOf(self, key)'
                           n == IndexPos(Get(self, key), index) + 1
                       IN  \A f \in DateFields(key, a) :
                              new[n].items[f[1]] = Iso8601(f[2])]_vars

\* C8 as amended: only the end date may have no value. With the start date
\* (work, volunteer, education), the date (awards) or the release date
\* (publications) supplied, add and update (at an index of the list) return,
\* store null for an end date of None and store every supplied date as its
\* ISO-8601 string; with that date None they raise AttributeError and leave
\* the document unchanged.
C8_EndDateOptional ==
    [][\A self \in resumes, key \in DatedSections :
          \A a \in ArgsOf(key) :
            /\ AddCall(self, key, a)
               => IF RequiredDate(key, a) = None
                  THEN err' = "AttributeError" /\ Document(self)' = Document(self)
                  ELSE /\ err' = ""
                       /\ LET new == ListOf(self, key)'
                          IN  \A f \in DateFields(key, a) :
                                 new[Len(new)].items[f[1]] = Iso8601(f[2])
            /\ \A index \in Indexes :
                 (IndexOk(Get(self, key), index) /\ UpdateCall(self, key, index, a))
                 => IF RequiredDate(key, a) = None
                    THEN err' = "AttributeError" /\ Document(self)' = Document(self)
                    ELSE /\ err' = ""
                         /\ LET new == ListOf(self, key)'
                                n == IndexPos(Get(self, key), index) + 1
                            IN  \A f \in DateFields(key, a) :
                                   new[n].items[f[1]] = Iso8601(f[2])]_vars

\* add_volunteer has stored a null end date beside an ISO start date, and a
\* later call with no start date has raised.
C8_Witness ==
    /\ err = "AttributeError"
    /\ Len(ListOf("r1", "volunteer")) = 1
    /\ ListOf("r1", "volunteer")[1].items["startDate"] = Str("2020-01-01")
    /\ ListOf("r1", "volunteer")[1].items["endDate"] = None

\* C9: in every reachable state, whatever calls returned or raised, all ten
\* section keys are present in every document.
C9_TenSections ==
    \A self \in resumes : Categories \subseteq DOMAIN data[self].items

\* open() has read a file that holds two of the ten categories and a key of
\* its own, and a later remove has raised: the ten are still there.
C9_Witness ==
    /\ err = "IndexError"
    /\ location["r1"] = "resume.json"
    /\ "meta" \in DOMAIN data["r1"].items
    /\ Len(ListOf("r1", "skills")) = 3
    /\ Categories \subseteq DOMAIN data["r1"].items

\* C10: the json object a successful save() writes has exactly the ten
\* section keys at its root, also after an open() of a file with more
\* top-level keys.
C10_ExactlyTenKeys ==
    [][\A self \in resumes :
          (save(self) /\ err' = "")
          => DOMAIN files'[location[self]].json.members = Categories]_vars


\* C11: add_profile(network, username, url) follows the add contract on
\* basics.profiles in every reachable document, one created empty included:
\* it returns, basics.profiles is one longer (1 on an empty document) and the
\* new record {network, username, url} is last.
C11_AddProfileAppends ==
    [][\A self \in resumes, a \in ProfileArgs :
          add_profile(self, a[1], a[2], a[3])
          => /\ err' = ""
             /\ ListOf(self, "profiles")' =
                    Append(ListOf(self, "profiles"), Expected("profiles", a))]_vars


\* The keys update_basics and update_location name.
BasicsFields == {"name", "label", "picture", "email", "phone", "website", "summary"}
LocationFields == {"address", "postalCode", "city", "countryCode", "region"}

\* The value of key k in the dict d, None while d has no such key.
ItemOr(d, k) == IF HasKey(d, k) THEN d.items[k] ELSE None

\* C12: update_basics and update_location are merge-updates that return on
\* every reachable document, one created empty included. update_basics sets
\* exactly name, label, picture, email, phone, website and summary and leaves
\* every other key of basics (location and profiles among them) as it was;
\* update_location sets exactly address, postalCode, city, countryCode and
\* region of basics.location and leaves every other key of basics.location and
\* of basics as it was.
C12_BasicsMerge ==
    [][\A self \in resumes :
          LET old == Get(self, "basics")
              new == Get(self, "basics")'
          IN  /\ \A a \in BasicsArgs :
                   update_basics(self, a[1], a[2], a[3], a[4], a[5], a[6], a[7])
                   => /\ err' = ""
                      /\ DOMAIN new.items = DOMAIN old.items \cup BasicsFields
                      /\ new.items["name"] = a[1] /\ new.items["label"] = a[2]
                      /\ new.items["picture"] = a[3] /\ new.items["email"] = a[4]
                      /\ new.items["phone"] = a[5] /\ new.items["website"] = a[6]
                      /\ new.items["summary"] = a[7]
                      /\ \A k \in DOMAIN old.items \ BasicsFields :
                            new.items[k] = old.items[k]
              /\ \A a \in LocationArgs :
                   update_location(self, a[1], a[2], a[3], a[4], a[5])
                   => /\ err' = ""
                      /\ DOMAIN new.items = DOMAIN old.items \cup {"location"}
                      /\ \A k \in DOMAIN old.items \ {"location"} :
                            new.items[k] = old.items[k]
                      /\ LET loc == new.items["location"]
                         IN  /\ loc.items["address"] = a[1]
                             /\ loc.items["postalCode"] = a[2]
                             /\ loc.items["city"] = a[3]
                             /\ loc.items["countryCode"] = a[4]
                             /\ loc.items["region"] = a[5]
                             /\ \A k \in DOMAIN loc.items \ LocationFields :
                                    HasKey(old, "location")
                                    /\ ItemOr(old.items["location"], k) = loc.items[k]]_vars


\* C13: if open(path) fails, with FileNotFoundError because the path does
\* not exist or with JSONDecodeError because the file is not json, the ten
\* sections and the location are what they were before the call (and so is
\* every key of the data and every file).
C13_FailedOpenChangesNothing ==
    [][\A self \in resumes, path \in Paths :
          (open_from_file(self, path) /\ err' # "")
          => /\ err' \in {"FileNotFoundError", "JSONDecodeError"}
             /\ (err' = "JSONDecodeError") = (files[path] = Garbage)
             /\ Document(self)' = Document(self)
             /\ data' = data /\ files' = files]_vars

\* A document that add_skill has changed and that was constructed with a
\* location has failed to open a file that is not json.
C13_Witness ==
    /\ err = "JSONDecodeError"
    /\ location["r1"] = "new.json"
    /\ Len(ListOf("r1", "skills")) = 1


\* ------------------------------------------------------- several documents

\* Resume() and Resume(location=loc) may be called again at any time: the
\* calls of Next, on every instance constructed so far, and the constructor.
NextShared ==
    \/ Next
    \/ \E self \in Instances \ resumes, loc \in Locations : Call(Resume_init(self, loc))

SpecShared == Init /\ [][NextShared]_vars

\* The step is a call of add, remove or update of some list on self.
ListCall(self) ==
    \E key \in ListKeys :
        \/ \E a \in ArgsOf(key) : AddCall(self, key, a)
        \/ \E index \in Indexes :
              \/ RemoveCall(self, key, index)
              \/ \E a \in ArgsOf(key) : UpdateCall(self, key, index, a)

\* C14: documents are independent. A document created with no arguments has
\* an empty basics object and nine empty lists whatever was done before to
\* other documents created with no arguments, and an add, remove or update on
\* one document changes no section of another document.
C14_Independent ==
    [][/\ \A self \in Instances \ resumes, loc \in Locations :
             Resume_init(self, loc) => \A k \in Categories : Get(self, k)' = Empty(k)
       /\ \A self \in resumes : \A other \in resumes \ {self} :
             (Contents(other)' # Contents(other)) => ~ListCall(self)]_vars


\* The step is a call on self of an operation of section s: update_basics,
\* update_location and the profile operations for basics, add, remove and
\* update of the list for the other nine.
SectionCall(self, s) ==
    IF s = "basics"
    THEN \/ \E a \in BasicsArgs : update_basics(self, a[1], a[2], a[3], a[4], a[5], a[6], a[7])
         \/ \E a \in LocationArgs : update_location(self, a[1], a[2], a[3], a[4], a[5])
         \/ \E a \in ProfileArgs : AddCall(self, "profiles", a)
         \/ \E index \in Indexes :
               \/ RemoveCall(self, "profiles", index)
               \/ \E a \in ProfileArgs : UpdateCall(self, "profiles", index, a)
    ELSE \/ \E a \in ArgsOf(s) : AddCall(self, s, a)
         \/ \E index \in Indexes :
               \/ RemoveCall(self, s, index)
               \/ \E a \in ArgsOf(s) : UpdateCall(self, s, index, a)

\* The step leaves the location of self and every section of self but s as they were.
OnlySection(self, s) ==
    /\ location'[self] = location[self]
    /\ \A k \in Categories \ {s} : Get(self, k)' = Get(self, k)

\* C15: within one document, a call of an add, remove or update operation
\* of a section, whether it returns or raises, leaves the other nine sections
\* and the location unchanged, and a call of save leaves all ten sections and
\* the location unchanged. (A step that changes nothing of the document
\* satisfies both; the other steps are compared with every call.)
C15_Frame ==
    [][\A self \in resumes :
          \/ Document(self)' = Document(self)
          \/ /\ \A s \in Categories : OnlySection(self, s) \/ ~SectionCall(self, s)
             /\ ~save(self)]_vars

\* add_work has returned on a document opened from resume.json.
C15_Witness ==
    /\ err = ""
    /\ calls = 2
    /\ location["r1"] = "resume.json"
    /\ Len(ListOf("r1", "work")) = 1
    /\ Len(ListOf("r1", "skills")) = 3
    /\ HasKey(Get("r1", "basics"), "name")

====
